---- MODULE Spec2Model ----
(***************************************************************************)
(* magnet-framer (src/src/main.py): the per-image pipeline of process()    *)
(* (classify, resolve parameters, crop, scale, pad, composite, rotate,     *)
(* persist), the configuration it reads, and the geometry of its stages.   *)
(* Images are modelled by their size; Python floats are IEEE-754 doubles   *)
(* and scale_image is modelled with their rounding.                        *)
(***************************************************************************)
EXTENDS Integers, Sequences, FiniteSets, TLC

VARIABLES
    config_file,     \* content of config.json as json.load returns it
    argv,            \* -l / -p / -d as given on the command line
    frame_files,     \* frame path -> size of the image stored there
    listing,         \* os.listdir(config.input), in iteration order
    dirs,            \* os.path.isdir of config.input and of config.output
    json_config, config, current_config,      \* the module globals
    pc,              \* position of the run
    idx,             \* position of the for loop in listing (0 before it)
    counter,         \* itertools.count of the current file
    original_image, frame, cropped_image, scaled_image,
    padded_image, framed_image, final_image,  \* locals of process()
    paste_offset,    \* (x, y) of the last frame_image paste
    rotated,         \* whether line 174 ran for the current file
    outputs,         \* files written by save_image, in order
    exit_code,       \* -1 while the run is alive
    hist,            \* stages executed so far, as <<file index, stage>>
    fn_args, fn_ret  \* argument and result of a stand-alone stage call

vars == <<config_file, argv, frame_files, listing, dirs, json_config, config,
          current_config, pc, idx, counter, original_image, frame,
          cropped_image, scaled_image, padded_image, framed_image,
          final_image, paste_offset, rotated, outputs, exit_code, hist,
          fn_args, fn_ret>>

(***************************************************************************)
(* Bounds.                                                                 *)
(***************************************************************************)
MaxFiles    == 2   \* directory entries of a batch
MaxBatchImg == 2   \* largest image side in a batch
MaxImg      == 4   \* image width/height when one file is processed
MaxFrame    == 3   \* frame width/height when one file is processed
MaxMargin   == 1   \* total crop margin when one file is processed
MaxFnDim    == 15  \* sizes given to a stand-alone stage call

(***************************************************************************)
(* Values.                                                                 *)
(***************************************************************************)
None == [frame_path |-> "None",
         crop |-> [left |-> 0, top |-> 0, right |-> 0, bottom |-> 0],
         scale_factor |-> [num |-> 0, den |-> 1]]
NoImage == [width |-> 0, height |-> 0]
NoFrame == [path |-> "None", width |-> 0, height |-> 0]
NoArgs  == [w |-> 0, h |-> 0, fw |-> 0, fh |-> 0]
NoRet   == [fn |-> "None", width |-> 0, height |-> 0, padding |-> <<0, 0, 0, 0>>,
            fill |-> "None"]
NoConfigFile == [land_frame_path |-> "None", port_frame_path |-> "None",
                 land_crop |-> None.crop, port_crop |-> None.crop,
                 land_scale_factor |-> None.scale_factor,
                 port_scale_factor |-> None.scale_factor,
                 rotate_to_landscape |-> FALSE, debug |-> FALSE]
NoNamespace == [landscape_frame |-> "None", portrait_frame |-> "None", debug |-> FALSE]

\* scale factors are the doubles num/den, both powers of two
Multipliers == {[num |-> 1, den |-> 2], [num |-> 1, den |-> 1], [num |-> 2, den |-> 1]}
One == [num |-> 1, den |-> 1]

Size(w, h) == [width |-> w, height |-> h]

(***************************************************************************)
(* IEEE-754 double arithmetic on small positive integers.                  *)
(* fl(a/b) = Q / 2^k with Q the nearest integer to a*2^k/b (ties to even)  *)
(* and 2^52 <= Q < 2^53.  RoundErr(a, b) = a*2^k - Q*b, so that            *)
(* fl(a/b) = a/b - RoundErr(a, b) / (b * 2^k).                             *)
(***************************************************************************)
RECURSIVE Pow2(_)
Pow2(n) == IF n <= 0 THEN 1 ELSE 2 * Pow2(n - 1)

RECURSIVE Pow2Mod(_, _)
Pow2Mod(k, m) == IF k = 0 THEN 1 % m ELSE (2 * Pow2Mod(k - 1, m)) % m

RECURSIVE FloorLog2Up(_, _, _)
FloorLog2Up(a, b, e) == IF b * Pow2(e + 1) <= a THEN FloorLog2Up(a, b, e + 1) ELSE e

RECURSIVE FloorLog2Down(_, _, _)
FloorLog2Down(a, b, t) == IF a * Pow2(t) < b THEN FloorLog2Down(a, b, t + 1) ELSE 0 - t

\* floor(log2(a / b)) for positive integers a, b
FloorLog2(a, b) == IF a >= b THEN FloorLog2Up(a, b, 0) ELSE FloorLog2Down(a, b, 1)

RoundErr(a, b) ==
    LET k    == 52 - FloorLog2(a, b)
        rem  == ((a % b) * Pow2Mod(k, b)) % b
        rem2 == ((a % (2 * b)) * Pow2Mod(k, 2 * b)) % (2 * b)
    IN  IF 2 * rem < b THEN rem
        ELSE IF 2 * rem > b THEN rem - b
        ELSE IF rem2 >= b THEN rem - b ELSE rem

\* int(d * (m * (a / b))) in double arithmetic, m = m.num / m.den
ScaleDim(d, a, b, m) ==
    LET num == d * m.num * a
        den == m.den * b
        N   == num \div den
        r   == RoundErr(a, b)
        jN  == FloorLog2(N, 1)
        p   == IF N = Pow2(jN) THEN 1 ELSE 0
        s   == 1 + p + FloorLog2(a, b) - jN
        lhs == d * m.num * r * Pow2(s)
        rhs == den * Pow2(0 - s)
    IN  IF num % den # 0 THEN N
        ELSE IF r <= 0 THEN N
        ELSE IF lhs > rhs THEN N - 1 ELSE N

(***************************************************************************)
(* The stages.                                                             *)
(***************************************************************************)
\* variant: the first comparison written with >=
image_orientation_ge(image) ==
    IF image.width >= image.height THEN "landscape"
    ELSE IF image.width < image.height THEN "portrait"
    ELSE "square"

image_orientation(image) ==
    IF image.width > image.height THEN "landscape"
    ELSE IF image.width < image.height THEN "portrait"
    ELSE "square"

crop_image(image, cc) ==
    LET left   == cc.crop.left
        top    == cc.crop.top
        right  == image.width - cc.crop.right
        bottom == image.height - cc.crop.bottom
    IN  Size(right - left, bottom - top)

\* min(frame.width / image.width, frame.height / image.height): the ratio
\* chosen, as <<numerator, denominator>>; equal ratios are equal doubles
MinRatio(image, fr) ==
    IF fr.width * image.height <= fr.height * image.width
    THEN <<fr.width, image.width>>
    ELSE <<fr.height, image.height>>

scale_image(image, fr, cc) ==
    LET q == MinRatio(image, fr)
    IN  Size(ScaleDim(image.width, q[1], q[2], cc.scale_factor),
             ScaleDim(image.height, q[1], q[2], cc.scale_factor))

\* variant: the centering division rounds up
padding_of_ceil(image, fr) ==
    LET left_padding   == (fr.width - image.width + 1) \div 2
        top_padding    == (fr.height - image.height + 1) \div 2
        right_padding  == fr.width - image.width - left_padding
        bottom_padding == fr.height - image.height - top_padding
    IN  <<left_padding, top_padding, right_padding, bottom_padding>>

\* variant: negative paddings are clamped to zero
padding_of_clamped(image, fr) ==
    LET Max0(n)        == IF n < 0 THEN 0 ELSE n
        left_padding   == (fr.width - image.width) \div 2
        top_padding    == (fr.height - image.height) \div 2
        right_padding  == fr.width - image.width - left_padding
        bottom_padding == fr.height - image.height - top_padding
    IN  <<Max0(left_padding), Max0(top_padding), Max0(right_padding), Max0(bottom_padding)>>

padding_of(image, fr) ==
    LET left_padding   == (fr.width - image.width) \div 2
        top_padding    == (fr.height - image.height) \div 2
        right_padding  == fr.width - image.width - left_padding
        bottom_padding == fr.height - image.height - top_padding
    IN  <<left_padding, top_padding, right_padding, bottom_padding>>

\* ImageOps.expand: the border is added on each side
expand(image, padding) ==
    Size(padding[1] + image.width + padding[3],
         padding[2] + image.height + padding[4])

pad_image(image, fr) == expand(image, padding_of(image, fr))

\* the fill of pad_image, line 75
pad_fill == IF config.debug THEN "red" ELSE "white"

frame_offset(image, fr) ==
    <<(fr.width - image.width) \div 2, (fr.height - image.height) \div 2>>

\* the frame is pasted into a copy of the image: the size is the image's
frame_image(image, fr) == Size(image.width, image.height)

\* variant: rotate(90) without expand=True keeps the canvas
rotate_image_noexpand(image) == Size(image.width, image.height)

rotate_image(image) == Size(image.height, image.width)


(***************************************************************************)
(* Names and parameter selection.                                          *)
(***************************************************************************)
\* os.path.splitext of the idx-th directory entry
splitext(i) == [root |-> "img" \o ToString(i), ext |-> listing[i].ext]

endswith_jpg(i) == listing[i].ext = ".jpg"

output_filename_with_postfix(i, postfix) ==
    "output/" \o splitext(i).root \o postfix \o splitext(i).ext

save_image(image, i, postfix) ==
    [name |-> output_filename_with_postfix(i, postfix), source |-> i,
     width |-> image.width, height |-> image.height]

\* the dict stored by set_current_config for a landscape or portrait image
set_current_config(image) ==
    IF image_orientation(image) = "landscape"
    THEN [frame_path   |-> json_config.land_frame_path,
          crop         |-> json_config.land_crop,
          scale_factor |-> json_config.land_scale_factor]
    ELSE [frame_path   |-> json_config.port_frame_path,
          crop         |-> json_config.port_crop,
          scale_factor |-> json_config.port_scale_factor]

\* variant: the slot is left as it is
unset_current_config_keeps == current_config

unset_current_config == None

\* parse_args: an option takes the configuration file's value by default
parse_args ==
    [landscape_frame |-> IF argv.landscape_frame = "None"
                         THEN config_file.land_frame_path
                         ELSE argv.landscape_frame,
     portrait_frame  |-> IF argv.portrait_frame = "None"
                         THEN config_file.port_frame_path
                         ELSE argv.portrait_frame,
     debug           |-> argv.debug \/ config_file.debug]

\* the frame file process() opens for the current image
frame_path_to_open == current_config.frame_path

\* line 173
rotate_condition ==
    json_config.rotate_to_landscape /\ image_orientation(original_image) = "portrait"

\* variant: the final image never takes an ordinal
final_postfix_fixed == "_framed"

\* postfix of the final image, line 178
final_postfix ==
    IF config.debug THEN "_" \o ToString(counter) \o "_framed" ELSE "_framed"

snapshot_postfix(stage) == "_" \o ToString(counter) \o "_" \o stage

(***************************************************************************)
(* The run: configure(), then process().                                   *)
(***************************************************************************)
env == <<config_file, argv, frame_files, listing, dirs>>
globals == <<json_config, config>>
images == <<original_image, frame, cropped_image, scaled_image, padded_image,
            framed_image, final_image, paste_offset, rotated>>
fn == <<fn_args, fn_ret>>

Log(stage) == Append(hist, <<idx, stage>>)

\* a debug snapshot is written and the counter advances, or neither
Snapshot(image, stage) ==
    IF config.debug
    THEN /\ outputs' = Append(outputs, save_image(image, idx, snapshot_postfix(stage)))
         /\ counter' = counter + 1
    ELSE UNCHANGED <<outputs, counter>>

Configure ==
    /\ pc = "start"
    /\ json_config' = config_file
    /\ config' = parse_args
    /\ pc' = "verify_input"
    /\ UNCHANGED <<env, current_config, idx, counter, images, outputs, exit_code, hist, fn>>

\* verify_input: both directories exist
VerifyInput ==
    /\ pc = "verify_input"
    /\ dirs.input
    /\ dirs.output
    /\ pc' = "for"
    /\ UNCHANGED <<env, globals, current_config, idx, counter, images, outputs, exit_code, hist, fn>>

\* verify_input: exit(1) on a missing input or output directory
VerifyInputExit ==
    /\ pc = "verify_input"
    /\ ~dirs.input \/ ~dirs.output
    /\ pc' = "verify_input_exit"
    /\ exit_code' = 1
    /\ UNCHANGED <<env, globals, current_config, idx, counter, images, outputs, hist, fn>>

ForSkip ==
    /\ pc = "for"
    /\ idx < Len(listing)
    /\ ~endswith_jpg(idx + 1)
    /\ idx' = idx + 1
    /\ UNCHANGED <<env, globals, current_config, pc, counter, images, outputs, exit_code, hist, fn>>

ForEnter ==
    /\ pc = "for"
    /\ idx < Len(listing)
    /\ endswith_jpg(idx + 1)
    /\ idx' = idx + 1
    /\ counter' = 0
    /\ pc' = "open"
    /\ UNCHANGED <<env, globals, current_config, images, outputs, exit_code, hist, fn>>

ForEnd ==
    /\ pc = "for"
    /\ idx = Len(listing)
    /\ pc' = "done"
    /\ exit_code' = 0
    /\ UNCHANGED <<env, globals, current_config, idx, counter, images, outputs, hist, fn>>

OpenImage ==
    /\ pc = "open"
    /\ original_image' = Size(listing[idx].width, listing[idx].height)
    /\ pc' = "set_current_config"
    /\ UNCHANGED <<env, globals, current_config, idx, counter, frame, cropped_image,
                   scaled_image, padded_image, framed_image, final_image,
                   paste_offset, rotated, outputs, exit_code, hist, fn>>

SetCurrentConfig ==
    /\ pc = "set_current_config"
    /\ image_orientation(original_image) # "square"
    /\ current_config' = set_current_config(original_image)
    /\ Snapshot(original_image, "original")
    /\ hist' = Append(Log("classify"), <<idx, "resolve">>)
    /\ pc' = "load_frame"
    /\ UNCHANGED <<env, globals, idx, images, exit_code, fn>>

SquareExit ==
    /\ pc = "set_current_config"
    /\ image_orientation(original_image) = "square"
    /\ hist' = Log("classify")
    /\ pc' = "exit"
    /\ exit_code' = 1
    /\ UNCHANGED <<env, globals, current_config, idx, counter, images, outputs, fn>>

LoadFrame ==
    /\ pc = "load_frame"
    /\ frame' = [path   |-> frame_path_to_open,
                 width  |-> frame_files[frame_path_to_open].width,
                 height |-> frame_files[frame_path_to_open].height]
    /\ pc' = "crop"
    /\ UNCHANGED <<env, globals, current_config, idx, counter, original_image,
                   cropped_image, scaled_image, padded_image, framed_image,
                   final_image, paste_offset, rotated, outputs, exit_code, hist, fn>>

Crop ==
    /\ pc = "crop"
    /\ cropped_image' = crop_image(original_image, current_config)
    /\ Snapshot(crop_image(original_image, current_config), "cropped")
    /\ hist' = Log("crop")
    /\ pc' = "scale"
    /\ UNCHANGED <<env, globals, current_config, idx, original_image, frame,
                   scaled_image, padded_image, framed_image, final_image,
                   paste_offset, rotated, exit_code, fn>>

Scale ==
    /\ pc = "scale"
    /\ scaled_image' = scale_image(cropped_image, frame, current_config)
    /\ Snapshot(scale_image(cropped_image, frame, current_config), "scaled")
    /\ hist' = Log("scale")
    /\ pc' = "pad"
    /\ UNCHANGED <<env, globals, current_config, idx, original_image, frame,
                   cropped_image, padded_image, framed_image, final_image,
                   paste_offset, rotated, exit_code, fn>>

\* resize to an empty size: Pillow builds that reject it raise ValueError,
\* which nothing catches; the others go on with Scale
ScaleRaises ==
    /\ pc = "scale"
    /\ \/ scale_image(cropped_image, frame, current_config).width = 0
       \/ scale_image(cropped_image, frame, current_config).height = 0
    /\ hist' = Log("scale")
    /\ pc' = "raised"
    /\ exit_code' = 1
    /\ UNCHANGED <<env, globals, current_config, idx, counter, images, outputs, fn>>

Pad ==
    /\ pc = "pad"
    /\ padded_image' = pad_image(scaled_image, frame)
    /\ Snapshot(pad_image(scaled_image, frame), "padded")
    /\ hist' = Log("pad")
    /\ pc' = "frame"
    /\ UNCHANGED <<env, globals, current_config, idx, original_image, frame,
                   cropped_image, scaled_image, framed_image, final_image,
                   paste_offset, rotated, exit_code, fn>>

Frame ==
    /\ pc = "frame"
    /\ framed_image' = frame_image(padded_image, frame)
    /\ paste_offset' = frame_offset(padded_image, frame)
    /\ hist' = Log("composite")
    /\ pc' = "rotate"
    /\ UNCHANGED <<env, globals, current_config, idx, counter, original_image, frame,
                   cropped_image, scaled_image, padded_image, final_image,
                   rotated, outputs, exit_code, fn>>

\* variant: the final save is skipped
Rotate_skips_save ==
    /\ pc = "rotate"
    /\ final_image' = IF rotate_condition THEN rotate_image(framed_image) ELSE framed_image
    /\ rotated' = rotate_condition
    /\ hist' = Log("rotate")
    /\ pc' = "unset_current_config"
    /\ UNCHANGED <<env, globals, current_config, idx, counter, original_image, frame,
                   cropped_image, scaled_image, padded_image, framed_image,
                   paste_offset, outputs, exit_code, fn>>

Rotate ==
    /\ pc = "rotate"
    /\ final_image' = IF rotate_condition THEN rotate_image(framed_image) ELSE framed_image
    /\ rotated' = rotate_condition
    /\ hist' = Log("rotate")
    /\ pc' = "save"
    /\ UNCHANGED <<env, globals, current_config, idx, counter, original_image, frame,
                   cropped_image, scaled_image, padded_image, framed_image,
                   paste_offset, outputs, exit_code, fn>>

SaveFinal ==
    /\ pc = "save"
    /\ outputs' = Append(outputs, save_image(final_image, idx, final_postfix))
    /\ counter' = IF config.debug THEN counter + 1 ELSE counter
    /\ hist' = Log("persist")
    /\ pc' = "unset_current_config"
    /\ UNCHANGED <<env, globals, current_config, idx, images, exit_code, fn>>

UnsetCurrentConfig ==
    /\ pc = "unset_current_config"
    /\ current_config' = unset_current_config
    /\ pc' = "for"
    /\ UNCHANGED <<env, globals, idx, counter, images, outputs, exit_code, hist, fn>>

Next ==
    \/ Configure
    \/ VerifyInput
    \/ VerifyInputExit
    \/ ForSkip
    \/ ForEnter
    \/ ForEnd
    \/ OpenImage
    \/ SetCurrentConfig
    \/ SquareExit
    \/ LoadFrame
    \/ Crop
    \/ Scale
    \/ ScaleRaises
    \/ Pad
    \/ Frame
    \/ Rotate
    \/ SaveFinal
    \/ UnsetCurrentConfig

(***************************************************************************)
(* Initial states.                                                         *)
(***************************************************************************)
Paths == {"land.png", "port.png", "alt.png"}

NotAnImage == [ext |-> ".txt", width |-> 0, height |-> 0]

Entries(maxdim) ==
    {[ext |-> ".jpg", width |-> w, height |-> h] : w \in 1..maxdim, h \in 1..maxdim}
        \cup {NotAnImage}

\* the entries of a batch: images with width + height <= maxdim + 1
BatchEntries(maxdim) ==
    {e \in Entries(maxdim) : e.width + e.height <= maxdim + 1}

Listings(maxlen, maxdim) == UNION {[1..n -> BatchEntries(maxdim)] : n \in 0..maxlen}

Margins(total) ==
    {c \in [left : 0..total, top : 0..total, right : 0..total, bottom : 0..total] :
        c.left + c.top + c.right + c.bottom <= total}

\* margins that leave at least one pixel of every image of the listing
InBounds(c, l) ==
    \A i \in 1..Len(l) :
        l[i].ext = ".jpg" => /\ c.left + c.right < l[i].width
                             /\ c.top + c.bottom < l[i].height

\* module load: the globals are None, nothing has run
NoLocals ==
    /\ idx = 0
    /\ counter = 0
    /\ original_image = NoImage
    /\ frame = NoFrame
    /\ cropped_image = NoImage
    /\ scaled_image = NoImage
    /\ padded_image = NoImage
    /\ framed_image = NoImage
    /\ final_image = NoImage
    /\ paste_offset = <<0, 0>>
    /\ rotated = FALSE
    /\ outputs = <<>>
    /\ exit_code = -1
    /\ hist = <<>>

Loaded ==
    /\ json_config = NoConfigFile
    /\ config = NoNamespace
    /\ current_config = None
    /\ NoLocals

\* a batch of up to MaxFiles entries; the command line and the landscape
\* multiplier vary
Init ==
    /\ Loaded
    /\ pc = "start"
    /\ fn_args = NoArgs
    /\ fn_ret = NoRet
    /\ listing \in Listings(MaxFiles, MaxBatchImg)
    /\ dirs \in [input : BOOLEAN, output : BOOLEAN]
    /\ frame_files = [p \in Paths |->
                         IF p = "land.png" THEN Size(MaxBatchImg, 1)
                         ELSE IF p = "port.png" THEN Size(1, MaxBatchImg)
                         ELSE Size(1, 1)]
    /\ config_file \in [land_frame_path : {"land.png"}, port_frame_path : {"port.png"},
                        land_crop : Margins(0), port_crop : Margins(0),
                        land_scale_factor : Multipliers, port_scale_factor : {One},
                        rotate_to_landscape : BOOLEAN, debug : {FALSE}]
    /\ argv \in [landscape_frame : {"None", "alt.png"},
                 portrait_frame : {"None", "alt.png"}, debug : BOOLEAN]

Spec == Init /\ [][Next]_vars

\* one directory entry; frame size, margins and multiplier vary, and both
\* orientations are configured alike
InitOne ==
    /\ Loaded
    /\ pc = "start"
    /\ fn_args = NoArgs
    /\ fn_ret = NoRet
    /\ listing \in [1..1 -> Entries(MaxImg)]
    /\ dirs \in [input : BOOLEAN, output : BOOLEAN]
    /\ \E fw \in 1..MaxFrame, fh \in 1..MaxFrame :
           frame_files = [p \in Paths |-> Size(fw, fh)]
    /\ \E c \in Margins(MaxMargin), m \in Multipliers, r \in BOOLEAN, d \in BOOLEAN :
           /\ InBounds(c, listing)
           /\ config_file = [land_frame_path |-> "land.png", port_frame_path |-> "port.png",
                             land_crop |-> c, port_crop |-> c,
                             land_scale_factor |-> m, port_scale_factor |-> m,
                             rotate_to_landscape |-> r, debug |-> d]
    /\ argv = [landscape_frame |-> "None", portrait_frame |-> "None", debug |-> FALSE]

SpecOne == InitOne /\ [][Next]_vars

(***************************************************************************)
(* Stand-alone calls of scale_image and pad_image.                         *)
(***************************************************************************)
\* the globals are as a stage finds them: configure() has run, with or
\* without debug mode, and set_current_config has stored a set with factor 1.0
InitFn ==
    /\ NoLocals
    /\ pc = "call"
    /\ listing = <<>>
    /\ dirs = [input |-> TRUE, output |-> TRUE]
    /\ frame_files = [p \in Paths |-> Size(1, 1)]
    /\ argv = [landscape_frame |-> "None", portrait_frame |-> "None", debug |-> FALSE]
    /\ \E d \in BOOLEAN :
           /\ config_file = [land_frame_path |-> "land.png", port_frame_path |-> "port.png",
                             land_crop |-> None.crop, port_crop |-> None.crop,
                             land_scale_factor |-> One, port_scale_factor |-> One,
                             rotate_to_landscape |-> FALSE, debug |-> d]
           /\ config = [landscape_frame |-> "land.png", portrait_frame |-> "port.png",
                        debug |-> d]
    /\ json_config = config_file
    /\ current_config = [frame_path   |-> config_file.land_frame_path,
                         crop         |-> config_file.land_crop,
                         scale_factor |-> config_file.land_scale_factor]
    /\ fn_args \in [w : 1..MaxFnDim, h : 1..MaxFnDim, fw : 1..MaxFnDim, fh : 1..MaxFnDim]
    /\ fn_ret = NoRet

\* scale_image(image, frame): the factor is read from current_config
CallScale ==
    /\ pc = "call"
    /\ LET r == scale_image(Size(fn_args.w, fn_args.h), Size(fn_args.fw, fn_args.fh),
                            current_config)
       IN  fn_ret' = [fn |-> "scale_image", width |-> r.width, height |-> r.height,
                      padding |-> <<0, 0, 0, 0>>, fill |-> "None"]
    /\ pc' = "returned"
    /\ UNCHANGED <<env, globals, current_config, idx, counter, images, outputs,
                   exit_code, hist, fn_args>>

\* resize to an empty size where the Pillow build rejects it: ValueError
\* leaves scale_image, nothing is returned
CallScaleRaises ==
    /\ pc = "call"
    /\ LET r == scale_image(Size(fn_args.w, fn_args.h), Size(fn_args.fw, fn_args.fh),
                            current_config)
       IN  r.width = 0 \/ r.height = 0
    /\ pc' = "call_raised"
    /\ UNCHANGED <<env, globals, current_config, idx, counter, images, outputs,
                   exit_code, hist, fn>>

\* pad_image(image, frame): the fill is chosen by config.debug
CallPad ==
    /\ pc = "call"
    /\ LET r == pad_image(Size(fn_args.w, fn_args.h), Size(fn_args.fw, fn_args.fh))
       IN  fn_ret' = [fn |-> "pad_image", width |-> r.width, height |-> r.height,
                      padding |-> padding_of(Size(fn_args.w, fn_args.h),
                                             Size(fn_args.fw, fn_args.fh)),
                      fill |-> pad_fill]
    /\ pc' = "returned"
    /\ UNCHANGED <<env, globals, current_config, idx, counter, images, outputs,
                   exit_code, hist, fn_args>>

NextFn == CallScale \/ CallScaleRaises \/ CallPad

SpecFn == InitFn /\ [][NextFn]_vars

TypeOK == pc \in {"start", "verify_input", "verify_input_exit", "for", "open", "set_current_config", "load_frame", "crop",
                  "scale", "pad", "frame", "rotate", "save", "unset_current_config",
                  "done", "exit", "raised", "call", "returned", "call_raised"}


(***************************************************************************)
(* Properties.                                                             *)
(***************************************************************************)
IsJpg(f) == listing[f].ext = ".jpg"
SourceSize(f) == Size(listing[f].width, listing[f].height)

\* the file the loop is at has been classified as landscape or portrait
InPipeline == pc \in {"load_frame", "crop", "scale", "pad", "frame", "rotate", "save",
                      "unset_current_config", "raised"}

\* file f has gone through its whole pipeline
Completed(f) ==
    /\ f \in 1..Len(listing)
    /\ IsJpg(f)
    /\ \/ f < idx
       \/ f = idx /\ pc \in {"unset_current_config", "for", "done"}

OutputsOf(f) == LET From(o) == o.source = f IN SelectSeq(outputs, From)
StagesOf(f) == LET Of(e) == e[1] = f IN SelectSeq(hist, Of)

StageOrder == <<"classify", "resolve", "crop", "scale", "pad", "composite", "rotate", "persist">>
Rank(stage) == CHOOSE i \in 1..Len(StageOrder) : StageOrder[i] = stage

\* C1: for every .jpg file the stages classify, resolve parameters, crop,
\* scale, pad, composite, conditional rotate, persist run once each and in
\* that order, and the first stage of a file follows the persist stage (and
\* the saved final image) of the previous processed file.
C1_StagesInOrder ==
    /\ \A i \in 1..Len(hist) :
          /\ IsJpg(hist[i][1])
          /\ IF i = 1 \/ hist[i - 1][1] # hist[i][1]
             THEN /\ hist[i][2] = "classify"
                  /\ i > 1 => /\ hist[i - 1][1] < hist[i][1]
                              /\ hist[i - 1][2] = "persist"
                              /\ Len(OutputsOf(hist[i - 1][1])) >= 1
             ELSE Rank(hist[i][2]) = Rank(hist[i - 1][2]) + 1
    /\ \A f \in 1..Len(listing) :
          Completed(f) => [i \in 1..Len(StagesOf(f)) |-> StagesOf(f)[i][2]] = StageOrder

C1_Witness ==
    /\ pc = "done"
    /\ Len(listing) = 2
    /\ Completed(1)
    /\ Completed(2)
    /\ Len(hist) = 2 * Len(StageOrder)

\* C2: a .jpg with width > height gets the landscape parameters and one with
\* width < height the portrait parameters; a .jpg with width = height ends the
\* run with exit code 1, nothing is written for it, nothing runs afterwards,
\* and only such an image ends the run that way.
C2_SquareAborts ==
    /\ pc = "exit" =>
          /\ exit_code = 1
          /\ IsJpg(idx)
          /\ listing[idx].width = listing[idx].height
          /\ Len(OutputsOf(idx)) = 0
          /\ \A i \in 1..Len(outputs) : outputs[i].source < idx
          /\ ~ENABLED Next
    /\ InPipeline =>
          /\ listing[idx].width # listing[idx].height
          /\ listing[idx].width > listing[idx].height =>
                current_config.frame_path = config_file.land_frame_path
          /\ listing[idx].width < listing[idx].height =>
                current_config.frame_path = config_file.port_frame_path
    /\ \A i \in 1..Len(outputs) :
          listing[outputs[i].source].width # listing[outputs[i].source].height

C2_Witness ==
    /\ pc = "exit"
    /\ config.debug
    /\ idx = 1
    /\ Len(listing) = 2
    /\ IsJpg(2)

\* C3: for an image no larger than the frame, pad_image's left and top
\* paddings are the floors of half the differences, right and bottom the
\* remainders; the four are non-negative, each pair sums to the difference,
\* the trailing padding is the leading one or one more, and the padded image
\* has the frame's size.
C3_PaddingCentered ==
    (fn_ret.fn = "pad_image" /\ fn_args.w <= fn_args.fw /\ fn_args.h <= fn_args.fh) =>
        LET left   == fn_ret.padding[1]
            top    == fn_ret.padding[2]
            right  == fn_ret.padding[3]
            bottom == fn_ret.padding[4]
        IN  /\ 2 * left <= fn_args.fw - fn_args.w
            /\ fn_args.fw - fn_args.w < 2 * left + 2
            /\ 2 * top <= fn_args.fh - fn_args.h
            /\ fn_args.fh - fn_args.h < 2 * top + 2
            /\ right = fn_args.fw - fn_args.w - left
            /\ bottom = fn_args.fh - fn_args.h - top
            /\ left >= 0 /\ top >= 0 /\ right >= 0 /\ bottom >= 0
            /\ left + right = fn_args.fw - fn_args.w
            /\ top + bottom = fn_args.fh - fn_args.h
            /\ right - left \in {0, 1}
            /\ bottom - top \in {0, 1}
            /\ fn_ret.width = fn_args.fw
            /\ fn_ret.height = fn_args.fh

C3_Witness ==
    /\ fn_ret.fn = "pad_image"
    /\ fn_args.w < fn_args.fw
    /\ fn_args.h < fn_args.fh
    /\ fn_ret.padding[3] - fn_ret.padding[1] = 1
    /\ fn_ret.padding[4] - fn_ret.padding[2] = 1

\* C4: with multiplier 1.0, scale_image returns new_w = floor(w * f) and
\* new_h = floor(h * f) for f = min(fw / w, fh / h), both within the frame
\* and each at most one pixel below the exact product.
\* (f = a / b for the ratio chosen, so floor(d * f) is (d * a) \div b.)
C4_ScaleIsFloor ==
    (fn_ret.fn = "scale_image" /\ current_config.scale_factor = One) =>
        LET q == IF fn_args.fw * fn_args.h <= fn_args.fh * fn_args.w
                 THEN <<fn_args.fw, fn_args.w>>
                 ELSE <<fn_args.fh, fn_args.h>>
        IN  /\ fn_ret.width = (fn_args.w * q[1]) \div q[2]
            /\ fn_ret.height = (fn_args.h * q[1]) \div q[2]
            /\ fn_ret.width <= fn_args.fw
            /\ fn_ret.height <= fn_args.fh
            /\ fn_ret.width * q[2] <= fn_args.w * q[1]
            /\ fn_args.w * q[1] <= (fn_ret.width + 1) * q[2]
            /\ fn_ret.height * q[2] <= fn_args.h * q[1]
            /\ fn_args.h * q[1] <= (fn_ret.height + 1) * q[2]

\* C5 as claimed: a file processed in debug mode leaves the four snapshots
\* _0_original, _1_cropped, _2_scaled, _3_padded and then <stem>_framed<ext>;
\* without debug mode <stem>_framed<ext> alone.
C5_FinalNameFixed ==
    \A f \in 1..Len(listing) :
        Completed(f) =>
            LET stem == "output/img" \o ToString(f)
                names == [i \in 1..Len(OutputsOf(f)) |-> OutputsOf(f)[i].name]
            IN  names = IF config.debug
                        THEN <<stem \o "_0_original.jpg", stem \o "_1_cropped.jpg",
                               stem \o "_2_scaled.jpg", stem \o "_3_padded.jpg",
                               stem \o "_framed.jpg">>
                        ELSE <<stem \o "_framed.jpg">>

\* C5 amended: a file processed in debug mode leaves exactly five files in
\* this order, _0_original, _1_cropped, _2_scaled, _3_padded and _4_framed
\* (the ordinals restart at 0 for every file and the final image takes the
\* next one); without debug mode <stem>_framed<ext> is the only file.
C5_DebugFiles ==
    \A f \in 1..Len(listing) :
        Completed(f) =>
            LET stem == "output/img" \o ToString(f)
                names == [i \in 1..Len(OutputsOf(f)) |-> OutputsOf(f)[i].name]
            IN  names = IF config.debug
                        THEN <<stem \o "_0_original.jpg", stem \o "_1_cropped.jpg",
                               stem \o "_2_scaled.jpg", stem \o "_3_padded.jpg",
                               stem \o "_4_framed.jpg">>
                        ELSE <<stem \o "_framed.jpg">>

C5_Witness ==
    /\ pc = "done"
    /\ config.debug
    /\ Completed(1)
    /\ Completed(2)
    /\ Len(outputs) = 10

\* the final image of the file the loop is at exists
AfterRotate == pc \in {"save", "unset_current_config"}
SourceIsPortrait == listing[idx].width < listing[idx].height

\* C6 as claimed: the rotation is applied exactly when the source is portrait
\* and the flag is set, the composite is saved unrotated otherwise, and a
\* portrait source with the flag set gives a final image wider than high.
C6_PortraitBecomesLandscape ==
    AfterRotate =>
        /\ rotated = (SourceIsPortrait /\ config_file.rotate_to_landscape)
        /\ final_image = IF rotated
                         THEN Size(framed_image.height, framed_image.width)
                         ELSE framed_image
        /\ (SourceIsPortrait /\ config_file.rotate_to_landscape) =>
               final_image.width > final_image.height

\* C6 amended: the rotation, which turns a W x H composite into an H x W
\* image, is applied exactly when the source is portrait and the flag is set,
\* and the composite is saved unrotated otherwise; a portrait source with the
\* flag set gives a final image of the frame's size transposed, wider than
\* high exactly when the portrait frame is higher than wide.
C6_RotationSwapsFrameSize ==
    /\ AfterRotate =>
          /\ rotated = (SourceIsPortrait /\ config_file.rotate_to_landscape)
          /\ final_image = IF rotated
                           THEN Size(framed_image.height, framed_image.width)
                           ELSE framed_image
          /\ (SourceIsPortrait /\ config_file.rotate_to_landscape) =>
                /\ final_image = Size(frame.height, frame.width)
                /\ (final_image.width > final_image.height) = (frame.height > frame.width)
    /\ pc = "unset_current_config" =>
          /\ outputs[Len(outputs)].source = idx
          /\ outputs[Len(outputs)].width = final_image.width
          /\ outputs[Len(outputs)].height = final_image.height

C6_Witness ==
    /\ pc = "unset_current_config"
    /\ SourceIsPortrait
    /\ rotated
    /\ frame.height > frame.width
    /\ outputs[Len(outputs)].width > outputs[Len(outputs)].height

\* C8: the frame loaded for a landscape (portrait) image is the one named by
\* the effective landscape (portrait) frame setting: the -l (-p) path when it
\* is given, the configuration file's path otherwise.
C8_FrameFollowsOverride ==
    pc \in {"crop", "scale", "pad", "frame", "rotate", "save", "unset_current_config"} =>
        frame.path = IF listing[idx].width > listing[idx].height
                     THEN (IF argv.landscape_frame # "None"
                           THEN argv.landscape_frame ELSE config_file.land_frame_path)
                     ELSE (IF argv.portrait_frame # "None"
                           THEN argv.portrait_frame ELSE config_file.port_frame_path)

\* C9: current_config is None before the first file, between two files, while
\* a non-.jpg entry is skipped and after a normal end; while crop, scale, pad
\* and composite run it is the landscape set if the image at hand has
\* width > height and the portrait set if width < height.
C9_SlotPerImage ==
    /\ pc \in {"start", "verify_input", "for", "open", "set_current_config", "done"} =>
          current_config = None
    /\ pc \in {"crop", "scale", "pad", "frame"} =>
          /\ listing[idx].width > listing[idx].height =>
                current_config = [frame_path   |-> config_file.land_frame_path,
                                  crop         |-> config_file.land_crop,
                                  scale_factor |-> config_file.land_scale_factor]
          /\ listing[idx].width < listing[idx].height =>
                current_config = [frame_path   |-> config_file.port_frame_path,
                                  crop         |-> config_file.port_crop,
                                  scale_factor |-> config_file.port_scale_factor]
          /\ listing[idx].width # listing[idx].height
          /\ current_config # None

C9_Witness ==
    /\ pc = "crop"
    /\ idx = 2
    /\ Completed(1)
    /\ SourceSize(1).width < SourceSize(1).height
    /\ SourceSize(2).width > SourceSize(2).height
    /\ config_file.land_scale_factor # config_file.port_scale_factor

\* C10: whatever the margins and the multiplier, also when the scaled image
\* is larger than the frame and the paddings are negative, the padded canvas
\* has the frame's size, the frame is pasted at (0, 0), and the final image
\* has the frame's size, transposed when it is rotated.
C10_CanvasIsFrameSized ==
    /\ pc \in {"frame", "rotate", "save", "unset_current_config"} =>
          padded_image = Size(frame.width, frame.height)
    /\ pc \in {"rotate", "save", "unset_current_config"} =>
          /\ paste_offset = <<0, 0>>
          /\ framed_image = Size(frame.width, frame.height)
    /\ AfterRotate =>
          final_image = IF rotated THEN Size(frame.height, frame.width)
                        ELSE Size(frame.width, frame.height)
    /\ pc = "unset_current_config" =>
          /\ outputs[Len(outputs)].width = final_image.width
          /\ outputs[Len(outputs)].height = final_image.height

C10_Witness ==
    /\ pc = "unset_current_config"
    /\ scaled_image.width > frame.width
    /\ padding_of(scaled_image, frame)[1] < 0
    /\ padding_of(scaled_image, frame)[3] < 0
    /\ padding_of(scaled_image, frame)[3] # padding_of(scaled_image, frame)[1]
    /\ current_config.crop # None.crop
    /\ outputs[Len(outputs)].width = frame.width

====
